---------------------------- MODULE Spec2Model ----------------------------
(***************************************************************************)
(* Model of convert.py: conversion of decrypted TOTP tokens to            *)
(* otpauth:// URIs.  Python strings are sequences of one-character         *)
(* strings; JSON values are tagged records (absent key, null, string,      *)
(* integer); a Python call that can raise returns a result record.         *)
(***************************************************************************)
EXTENDS Integers, Sequences, FiniteSets, TLC

VARIABLES
    pc,          \* position of convert_tokens
    interactive, \* the --interactive flag
    file,        \* what the input path holds
    tokens,      \* data['decrypted_authenticator_tokens'], mutated in place
    i,           \* index of the token the for loop is at
    issuer,      \* local variable issuer of the loop body
    account,     \* local variable account of the loop body
    uris,        \* local list uris
    output,      \* content of the output file
    writes,      \* number of times the output file was opened for writing
    logged,      \* the 'processed totp' log lines, as issuer/account pairs
    errors,      \* the logger.error lines
    prompts,     \* the input() calls made, with the reply each received
    utoken,      \* argument of a direct call of generate_otpauth_uri
    uresult,     \* its outcome
    sname,       \* first argument of a direct call of strip_issuer_from_name
    sissuer,     \* second argument
    sresult      \* its outcome

vars == <<pc, interactive, file, tokens, i, issuer, account, uris, output,
          writes, logged, errors, prompts, utoken, uresult, sname, sissuer,
          sresult>>

convertVars == <<pc, interactive, file, tokens, i, issuer, account, uris,
                 output, writes, logged, errors, prompts>>
uriVars == <<utoken, uresult>>
stripVars == <<sname, sissuer, sresult>>

---------------------------------------------------------------------------
(* JSON / Python values *)

Absent == [k |-> "absent", s |-> <<>>, n |-> 0]
Null == [k |-> "null", s |-> <<>>, n |-> 0]
Str(s) == [k |-> "str", s |-> s, n |-> 0]
Num(n) == [k |-> "int", s |-> <<>>, n |-> n]

\* dict.get(key, default)
Get(d, key, default) == IF d[key] = Absent THEN default ELSE d[key]

\* Python truthiness of None, str and int
Truthy(v) ==
    CASE v.k = "str" -> v.s # <<>>
      [] v.k = "int" -> v.n # 0
      [] OTHER -> FALSE

\* outcome of a call: a returned value or a raised exception
Ok(v) == [ok |-> TRUE, v |-> v, exc |-> "none"]
Raise(e) == [ok |-> FALSE, v |-> <<>>, exc |-> e]
NotCalled == [ok |-> FALSE, v |-> <<>>, exc |-> "not called"]

---------------------------------------------------------------------------
(* str methods *)

Whitespace == {" ", "\t", "\n", "\r"}

LowerAlpha == <<"a","b","c","d","e","f","g","h","i","j","k","l","m",
                "n","o","p","q","r","s","t","u","v","w","x","y","z">>
UpperAlpha == <<"A","B","C","D","E","F","G","H","I","J","K","L","M",
                "N","O","P","Q","R","S","T","U","V","W","X","Y","Z">>
DigitChars == <<"0","1","2","3","4","5","6","7","8","9">>

Range(f) == {f[j] : j \in DOMAIN f}
SetMin(S) == CHOOSE x \in S : \A y \in S : x <= y
SetMax(S) == CHOOSE x \in S : \A y \in S : x >= y

IsLower(c) == c \in Range(LowerAlpha)
ToUpper(c) ==
    IF c \in Range(LowerAlpha)
    THEN UpperAlpha[CHOOSE j \in DOMAIN LowerAlpha : LowerAlpha[j] = c]
    ELSE c
ToLower(c) ==
    IF c \in Range(UpperAlpha)
    THEN LowerAlpha[CHOOSE j \in DOMAIN UpperAlpha : UpperAlpha[j] = c]
    ELSE c

\* s.strip()
Strip(s) ==
    LET keep == {j \in 1..Len(s) : s[j] \notin Whitespace}
    IN  IF keep = {} THEN <<>> ELSE SubSeq(s, SetMin(keep), SetMax(keep))

\* s.startswith(p)
StartsWith(s, p) == Len(s) >= Len(p) /\ SubSeq(s, 1, Len(p)) = p

\* sub in s
Contains(s, sub) ==
    \E j \in 1..(Len(s) + 1) :
        j + Len(sub) - 1 <= Len(s) /\ SubSeq(s, j, j + Len(sub) - 1) = sub

\* s.split(c)[0]
BeforeFirst(s, c) ==
    LET at == {j \in 1..Len(s) : s[j] = c}
    IN  IF at = {} THEN s ELSE SubSeq(s, 1, SetMin(at) - 1)

\* s.split(): the maximal runs of non-whitespace characters
RECURSIVE SplitWords(_)
SplitWords(s) ==
    LET keep == {j \in 1..Len(s) : s[j] \notin Whitespace}
    IN  IF keep = {} THEN <<>>
        ELSE LET b == SetMin(keep)
                 ws == {j \in b..Len(s) : s[j] \in Whitespace}
                 e == IF ws = {} THEN Len(s) + 1 ELSE SetMin(ws)
             IN  <<SubSeq(s, b, e - 1)>> \o SplitWords(SubSeq(s, e, Len(s)))

\* sep.join(parts)
RECURSIVE JoinWith(_, _)
JoinWith(parts, sep) ==
    IF parts = <<>> THEN <<>>
    ELSE IF Len(parts) = 1 THEN parts[1]
    ELSE parts[1] \o sep \o JoinWith(Tail(parts), sep)

\* f"{n}" of a non-negative int
RECURSIVE DecStr(_)
DecStr(n) ==
    IF n < 10 THEN <<DigitChars[n + 1]>>
    ELSE DecStr(n \div 10) \o <<DigitChars[(n % 10) + 1]>>

---------------------------------------------------------------------------
(* strip_issuer_from_name *)

\* the character class [:\-\s]
SepClass == {":", "-"} \cup Whitespace

\* greedy \s* : the length of the whitespace run of s that starts at from
WsRun(s, from) ==
    SetMax({k \in 0..(Len(s) + 1 - from) :
                \A j \in from..(from + k - 1) : s[j] \in Whitespace} \cup {0})

\* re.escape(issuer) under re.IGNORECASE at ^: the issuer's characters, taken
\* literally, each matching in either case
MatchesIssuerAtStart(name, iss) ==
    /\ Len(name) >= Len(iss)
    /\ \A j \in 1..Len(iss) : ToLower(name[j]) = ToLower(iss[j])

\* end of the match of  ^issuer\s*[:\-\s]\s*  in name, 0 when there is none:
\* the first \s* gives back characters until [:\-\s] matches, the second \s*
\* takes every whitespace character that follows
MatchEnd_CaseSensitive(name, iss) ==
    IF ~(Len(name) >= Len(iss) /\ SubSeq(name, 1, Len(iss)) = iss) THEN 0
    ELSE LET p == Len(iss)
             ks == {k \in 0..WsRun(name, p + 1) :
                        p + k + 1 <= Len(name) /\ name[p + k + 1] \in SepClass}
         IN  IF ks = {} THEN 0
             ELSE LET k == SetMax(ks)
                  IN  p + k + 1 + WsRun(name, p + k + 2)

MatchEnd(name, iss) ==
    IF ~MatchesIssuerAtStart(name, iss) THEN 0
    ELSE LET p == Len(iss)
             ks == {k \in 0..WsRun(name, p + 1) :
                        p + k + 1 <= Len(name) /\ name[p + k + 1] \in SepClass}
         IN  IF ks = {} THEN 0
             ELSE LET k == SetMax(ks)
                  IN  p + k + 1 + WsRun(name, p + k + 2)

\* pattern.sub('', name): the pattern is anchored, so at most one match goes
PatternSub(name, iss) ==
    LET e == MatchEnd(name, iss)
    IN  IF e = 0 THEN name ELSE SubSeq(name, e + 1, Len(name))

\* strip_issuer_from_name(name, issuer), name and issuer None or str
strip_issuer_from_name(name, iss) ==
    IF ~Truthy(name) \/ ~Truthy(iss)
    THEN IF Truthy(name) THEN Strip(name.s) ELSE <<>>
    ELSE Strip(PatternSub(name.s, iss.s))

---------------------------------------------------------------------------
(* generate_otpauth_uri *)

S_scheme == <<"o","t","p","a","u","t","h",":","/","/","t","o","t","p","/">>
S_secretEq == <<"s","e","c","r","e","t","=">>
S_issuerEq == <<"i","s","s","u","e","r","=">>
S_digitsEq == <<"d","i","g","i","t","s","=">>
S_algorithm == <<"a","l","g","o","r","i","t","h","m","=","S","H","A","1">>

\* digits = token.get('digits', 6)
DefaultDigits == 6

\* urllib.parse.quote(s, safe=''): letters, digits and _.-~ are kept, every
\* other character becomes %XX
Unreserved ==
    Range(LowerAlpha) \cup Range(UpperAlpha) \cup Range(DigitChars)
        \cup {"_", ".", "-", "~"}
PctEncode(c) ==
    CASE c \in Unreserved -> <<c>>
      [] c = " " -> <<"%","2","0">>
      [] c = ":" -> <<"%","3","A">>
      [] c = "/" -> <<"%","2","F">>
      [] c = "?" -> <<"%","3","F">>
      [] c = "&" -> <<"%","2","6">>
      [] c = "=" -> <<"%","3","D">>
      [] c = "%" -> <<"%","2","5">>
      [] c = "@" -> <<"%","4","0">>
      [] c = "+" -> <<"%","2","B">>
      [] c = "\t" -> <<"%","0","9">>
      [] c = "\n" -> <<"%","0","A">>
      [] c = "\r" -> <<"%","0","D">>
RECURSIVE Quote(_)
Quote(s) == IF s = <<>> THEN <<>> ELSE PctEncode(Head(s)) \o Quote(Tail(s))

\* f"{v}" of a str or a non-negative int
Format(v) == IF v.k = "str" THEN v.s ELSE DecStr(v.n)

\* label = f"{issuer}:{account}" if issuer else account
Label(iss, acct) == IF Truthy(iss) THEN iss.s \o <<":">> \o acct ELSE acct

\* the list params
QueryParams_IssuerFirst(secret, iss, digits) ==
    (IF Truthy(iss) THEN <<S_issuerEq \o Quote(iss.s)>> ELSE <<>>)
        \o (IF Truthy(secret) THEN <<S_secretEq \o Format(secret)>> ELSE <<>>)
        \o (IF Truthy(digits) THEN <<S_digitsEq \o Format(digits)>> ELSE <<>>)
        \o <<S_algorithm>>

QueryParams(secret, iss, digits) ==
    (IF Truthy(secret) THEN <<S_secretEq \o Format(secret)>> ELSE <<>>)
        \o (IF Truthy(iss) THEN <<S_issuerEq \o Quote(iss.s)>> ELSE <<>>)
        \o (IF Truthy(digits) THEN <<S_digitsEq \o Format(digits)>> ELSE <<>>)
        \o <<S_algorithm>>

GetDigits_DefaultWhenFalsy(token) ==
    IF Truthy(token.digits) THEN token.digits ELSE Num(DefaultDigits)

GetDigits(token) == Get(token, "digits", Num(DefaultDigits))

\* generate_otpauth_uri(token): the URI, or AttributeError from name.strip()
\* when the stripped account is empty and name is None
generate_otpauth_uri(token) ==
    LET iss == Get(token, "issuer", Str(<<>>))
        name == Get(token, "name", Str(<<>>))
        secret == Get(token, "decrypted_seed", Str(<<>>))
        digits == GetDigits(token)
        stripped == strip_issuer_from_name(name, iss)
    IN  IF stripped = <<>> /\ name.k # "str" THEN Raise("AttributeError")
        ELSE LET acct == IF stripped = <<>> THEN Strip(name.s) ELSE stripped
             IN  Ok(S_scheme \o Quote(Label(iss, acct)) \o <<"?">>
                        \o JoinWith(QueryParams(secret, iss, digits), <<"&">>))

---------------------------------------------------------------------------
(* convert_tokens: the issuer fallback chain and the title-casing *)

S_authenticator_ == <<"a","u","t","h","e","n","t","i","c","a","t","o","r","_">>
S_authenticator == <<"a","u","t","h","e","n","t","i","c","a","t","o","r">>

UsableLogo(token) ==
    LET logo == Get(token, "logo", Null)
    IN  Truthy(logo) /\ ~StartsWith(logo.s, S_authenticator_)

UsableAccountType(token) ==
    LET at == Get(token, "account_type", Null)
    IN  Truthy(at) /\ ~StartsWith(at.s, S_authenticator)

\* lines 121-143: the issuer before title-casing, or TypeError from
\* ':' in name when the chain reaches the name and the name is None
ResolveIssuer_AccountTypeFirst(token) ==
    LET i0 == Get(token, "issuer", Null)
        i1 == IF ~Truthy(i0) /\ UsableAccountType(token)
              THEN Get(token, "account_type", Null) ELSE i0
        i2 == IF ~Truthy(i1) /\ UsableLogo(token)
              THEN Get(token, "logo", Null) ELSE i1
        name == Get(token, "name", Str(<<>>))
    IN  IF Truthy(i2) THEN Ok(i2.s)
        ELSE IF name.k # "str" THEN Raise("TypeError")
        ELSE LET i3 == IF Contains(name.s, <<":">>)
                       THEN Strip(BeforeFirst(name.s, ":")) ELSE <<>>
             IN  IF i3 # <<>> THEN Ok(i3) ELSE Ok(Strip(name.s))

ResolveIssuer(token) ==
    LET i0 == Get(token, "issuer", Null)
        i1 == IF ~Truthy(i0) /\ UsableLogo(token)
              THEN Get(token, "logo", Null) ELSE i0
        i2 == IF ~Truthy(i1) /\ UsableAccountType(token)
              THEN Get(token, "account_type", Null) ELSE i1
        name == Get(token, "name", Str(<<>>))
    IN  IF Truthy(i2) THEN Ok(i2.s)
        ELSE IF name.k # "str" THEN Raise("TypeError")
        ELSE LET i3 == IF Contains(name.s, <<":">>)
                       THEN Strip(BeforeFirst(name.s, ":")) ELSE <<>>
             IN  IF i3 # <<>> THEN Ok(i3) ELSE Ok(Strip(name.s))

\* lines 147-149 for one word
TitleCaseWord(w) ==
    IF IsLower(w[1]) THEN <<ToUpper(w[1])>> \o Tail(w) ELSE w

\* lines 145-150
TitleCase(s) ==
    IF s = <<>> THEN s
    ELSE LET words == SplitWords(s)
         IN  JoinWith([j \in 1..Len(words) |-> TitleCaseWord(words[j])], <<" ">>)

---------------------------------------------------------------------------
(* Inputs *)

MaxTokens == 2
MaxNameLen == 4
MaxIssuerLen == 1
MaxDigits == 8

Tok(iss, name, logo, at, seed, digits) ==
    [issuer |-> iss, name |-> name, logo |-> logo, account_type |-> at,
     decrypted_seed |-> seed, digits |-> digits]

N_Acme == <<"A","c","m","e">>
N_AcmeJsmith == <<"A","c","m","e",":"," ","j","s","m","i","t","h">>
N_AcmeColon == <<"A","c","m","e",":">>
N_AcmeEmail == <<"A","c","m","e",":"," ","E","m","a","i","l">>
N_ACMEjsmith == <<"A","C","M","E","-","j","s","m","i","t","h">>
N_jsmith == <<"j","s","m","i","t","h">>
N_Email == <<"E","m","a","i","l">>
N_SECRET == <<"S","E","C","R","E","T","1","2","3">>
N_github == <<"g","i","t","h","u","b">>
N_gitlab == <<"g","i","t","l","a","b">>
N_authLogo == <<"a","u","t","h","e","n","t","i","c","a","t","o","r","_","x">>
N_myBank == <<"m","y"," ","b","a","n","k">>
N_corpAB == <<"c","o","r","p",":"," ","a",":"," ","b">>
N_colonX == <<":"," ","x">>
N_solo == <<"s","o","l","o">>
N_CorpZ == <<" ","C","o","r","p",":"," ","z"," ">>

\* the token records convert_tokens is run on
TokenPool ==
    { Tok(Str(N_Acme), Str(N_AcmeJsmith), Absent, Absent, Str(N_SECRET), Num(6)),
      Tok(Absent, Str(N_jsmith), Str(N_github), Str(N_gitlab), Str(N_SECRET), Absent),
      Tok(Null, Str(N_solo), Str(N_authLogo), Str(N_myBank), Str(N_SECRET), Num(8)),
      Tok(Str(<<>>), Str(N_corpAB), Absent, Str(S_authenticator), Str(N_SECRET), Num(6)),
      Tok(Absent, Str(N_colonX), Null, Null, Str(N_SECRET), Num(6)),
      Tok(Absent, Str(N_solo), Absent, Absent, Str(N_SECRET), Null),
      Tok(Str(N_Acme), Null, Absent, Absent, Str(N_SECRET), Num(6)),
      Tok(Absent, Null, Absent, Absent, Str(N_SECRET), Num(6)),
      Tok(Str(N_Acme), Str(N_AcmeColon), Absent, Absent, Str(N_SECRET), Num(6)),
      Tok(Absent, Absent, Absent, Absent, Absent, Absent) }

SeqsUpTo(S, n) == UNION {[1..m -> S] : m \in 0..n}

\* what the input path holds
FilePool ==
    {[kind |-> k, haskey |-> FALSE, toks |-> <<>>] :
        k \in {"missing", "malformed", "list", "object"}}
    \cup {[kind |-> "object", haskey |-> TRUE, toks |-> ts] :
            ts \in SeqsUpTo(TokenPool, MaxTokens)}

\* the lines the operator types at a prompt
ReplyPool == {<<>>, <<" ">>, N_CorpZ}

\* the arguments of the direct calls of generate_otpauth_uri
UriTokenPool ==
    { Tok(iss, name, Absent, Absent, seed, digits) :
        iss \in {Absent, Null, Str(<<>>), Str(N_Acme), Str(N_myBank)},
        name \in {Absent, Null, Str(<<>>), Str(N_jsmith), Str(N_AcmeJsmith),
                  Str(N_AcmeColon), Str(N_colonX)},
        seed \in {Absent, Null, Str(<<>>), Str(N_SECRET)},
        digits \in {Absent, Null} \cup {Num(d) : d \in 0..MaxDigits} }

\* the arguments of the direct calls of strip_issuer_from_name
Alphabet == {"a", "A", ":", "-", " "}
StripNamePool ==
    {Null} \cup {Str(s) : s \in SeqsUpTo(Alphabet, MaxNameLen)
                             \cup {N_AcmeEmail, N_ACMEjsmith, N_Acme}}
StripIssuerPool ==
    {Null} \cup {Str(s) : s \in SeqsUpTo(Alphabet, MaxIssuerLen) \cup {N_Acme}}

---------------------------------------------------------------------------
(* convert_tokens *)

Unwritten == [written |-> FALSE, text |-> <<>>]

\* the except clauses of lines 187-192: every exception listed is a subclass
\* of Exception, so each is logged and the function returns
ExceptionSubclasses ==
    {"FileNotFoundError", "JSONDecodeError", "AttributeError", "TypeError",
     "OSError"}
ErrorLine(exc) ==
    CASE exc = "FileNotFoundError" -> [msg |-> "could not find", exc |-> exc]
      [] exc = "JSONDecodeError" -> [msg |-> "invalid JSON", exc |-> exc]
      [] OTHER -> [msg |-> "error", exc |-> exc]
AfterRaise(exc) == IF exc \in ExceptionSubclasses THEN "returned" ELSE "raised"

\* an exception raised inside the try block
Except(exc) ==
    /\ errors' = (IF exc \in ExceptionSubclasses
                  THEN Append(errors, ErrorLine(exc)) ELSE errors)
    /\ pc' = AfterRaise(exc)

\* the for loop is over once every token was visited
LoopDone_OneEarly(idx, toks) == idx >= Len(toks)
LoopDone(idx, toks) == idx > Len(toks)

\* uris.append(uri)
Collect_Prepend(us, uri) == <<uri>> \o us
Collect(us, uri) == Append(us, uri)

\* if ": " in account and interactive
NeedsAccountPrompt_AnyMode(acct, inter) == Contains(acct, <<":", " ">>)
NeedsAccountPrompt(acct, inter) == Contains(acct, <<":", " ">>) /\ inter

Init ==
    /\ pc = "start"
    /\ interactive \in BOOLEAN
    /\ file \in FilePool
    /\ tokens = <<>>
    /\ i = 0
    /\ issuer = <<>>
    /\ account = <<>>
    /\ uris = <<>>
    /\ output = Unwritten
    /\ writes = 0
    /\ logged = <<>>
    /\ errors = <<>>
    /\ prompts = <<>>
    /\ utoken = Tok(Absent, Absent, Absent, Absent, Absent, Absent)
    /\ uresult = NotCalled
    /\ sname = Null
    /\ sissuer = Null
    /\ sresult = NotCalled

\* lines 107-115: open and parse the input, look the token list up
ReadInput ==
    /\ pc = "start"
    /\ CASE file.kind = "missing" ->
              /\ Except("FileNotFoundError")
              /\ UNCHANGED <<tokens, i>>
         [] file.kind = "malformed" ->
              /\ Except("JSONDecodeError")
              /\ UNCHANGED <<tokens, i>>
         [] file.kind = "list" ->
              /\ Except("AttributeError")
              /\ UNCHANGED <<tokens, i>>
         [] file.kind = "object" ->
              /\ tokens' = (IF file.haskey THEN file.toks ELSE <<>>)
              /\ IF tokens' = <<>>
                 THEN /\ errors' = Append(errors, [msg |-> "No tokens found",
                                                   exc |-> "none"])
                      /\ pc' = "returned"
                      /\ UNCHANGED i
                 ELSE /\ pc' = "resolve"
                      /\ i' = 1
                      /\ UNCHANGED errors
    /\ UNCHANGED <<interactive, file, issuer, account, uris, output, writes,
                   logged, prompts>>
    /\ UNCHANGED <<uriVars, stripVars>>

\* lines 121-143: the fallback chain for token i
Resolve ==
    /\ pc = "resolve"
    /\ LET r == ResolveIssuer(tokens[i])
       IN  IF r.ok
           THEN /\ issuer' = r.v
                /\ pc' = "titlecase"
                /\ UNCHANGED errors
           ELSE /\ Except(r.exc)
                /\ UNCHANGED issuer
    /\ UNCHANGED <<interactive, file, tokens, i, account, uris, output,
                   writes, logged, prompts>>
    /\ UNCHANGED <<uriVars, stripVars>>

\* lines 145-150
TitleCaseIssuer ==
    /\ pc = "titlecase"
    /\ issuer' = TitleCase(issuer)
    /\ pc' = IF interactive THEN "issuer_prompt" ELSE "store"
    /\ UNCHANGED <<interactive, file, tokens, i, account, uris, output,
                   writes, logged, errors, prompts>>
    /\ UNCHANGED <<uriVars, stripVars>>

\* lines 153-159: input() returns the line the operator typed
IssuerPrompt ==
    /\ pc = "issuer_prompt"
    /\ \E line \in ReplyPool :
         LET user_input == Strip(line)
         IN  /\ issuer' = (IF user_input # <<>> THEN user_input ELSE issuer)
             /\ prompts' = Append(prompts, [idx |-> i, kind |-> "issuer",
                                            reply |-> user_input])
    /\ pc' = "store"
    /\ UNCHANGED <<interactive, file, tokens, i, account, uris, output,
                   writes, logged, errors>>
    /\ UNCHANGED <<uriVars, stripVars>>

\* lines 162-167: write the issuer back, clean the name
StoreAndClean ==
    /\ pc = "store"
    /\ tokens' = [tokens EXCEPT ![i].issuer = Str(issuer)]
    /\ account' = strip_issuer_from_name(Get(tokens[i], "name", Str(<<>>)),
                                         Str(issuer))
    /\ pc' = IF NeedsAccountPrompt(account', interactive)
             THEN "account_prompt" ELSE "log"
    /\ UNCHANGED <<interactive, file, i, issuer, uris, output, writes,
                   logged, errors, prompts>>
    /\ UNCHANGED <<uriVars, stripVars>>

\* lines 168-172
AccountPrompt ==
    /\ pc = "account_prompt"
    /\ \E line \in ReplyPool :
         LET custom_accout_input == Strip(line)
         IN  /\ IF custom_accout_input # <<>>
                THEN /\ account' = custom_accout_input
                     /\ tokens' = [tokens EXCEPT ![i].name = Str(account')]
                ELSE UNCHANGED <<account, tokens>>
             /\ prompts' = Append(prompts, [idx |-> i, kind |-> "account",
                                            reply |-> custom_accout_input])
    /\ pc' = "log"
    /\ UNCHANGED <<interactive, file, i, issuer, uris, output, writes,
                   logged, errors>>
    /\ UNCHANGED <<uriVars, stripVars>>

\* lines 174-177: log the pair, build the URI, collect it, next token
LogAndBuild ==
    /\ pc = "log"
    /\ logged' = Append(logged, [issuer |-> issuer, account |-> account])
    /\ LET r == generate_otpauth_uri(tokens[i])
       IN  IF r.ok
           THEN /\ uris' = Collect(uris, r.v)
                /\ i' = i + 1
                /\ pc' = IF LoopDone(i + 1, tokens) THEN "write" ELSE "resolve"
                /\ UNCHANGED errors
           ELSE /\ Except(r.exc)
                /\ UNCHANGED <<uris, i>>
    /\ UNCHANGED <<interactive, file, tokens, issuer, account, output,
                   writes, prompts>>
    /\ UNCHANGED <<uriVars, stripVars>>

\* lines 180-181: open the output for writing and write the joined URIs
WriteOutput ==
    /\ pc = "write"
    /\ output' = [written |-> TRUE, text |-> JoinWith(uris, <<"\n">>)]
    /\ writes' = writes + 1
    /\ pc' = "returned"
    /\ UNCHANGED <<interactive, file, tokens, i, issuer, account, uris,
                   logged, errors, prompts>>
    /\ UNCHANGED <<uriVars, stripVars>>

\* lines 180-181 fail with OSError: either open() fails and the output is
\* untouched, or open() has truncated the output and f.write() fails
WriteFails ==
    /\ pc = "write"
    /\ \E opened \in BOOLEAN :
         IF opened
         THEN /\ output' = [written |-> TRUE, text |-> <<>>]
              /\ writes' = writes + 1
         ELSE UNCHANGED <<output, writes>>
    /\ Except("OSError")
    /\ UNCHANGED <<interactive, file, tokens, i, issuer, account, uris,
                   logged, prompts>>
    /\ UNCHANGED <<uriVars, stripVars>>

Next ==
    \/ ReadInput
    \/ Resolve
    \/ TitleCaseIssuer
    \/ IssuerPrompt
    \/ StoreAndClean
    \/ AccountPrompt
    \/ LogAndBuild
    \/ WriteOutput
    \/ WriteFails

Spec == Init /\ [][Next]_vars

---------------------------------------------------------------------------
(* direct calls of generate_otpauth_uri *)

IdleConvert ==
    /\ pc = "idle"
    /\ interactive = FALSE
    /\ file = [kind |-> "missing", haskey |-> FALSE, toks |-> <<>>]
    /\ tokens = <<>>
    /\ i = 0
    /\ issuer = <<>>
    /\ account = <<>>
    /\ uris = <<>>
    /\ output = Unwritten
    /\ writes = 0
    /\ logged = <<>>
    /\ errors = <<>>
    /\ prompts = <<>>

InitUri ==
    /\ IdleConvert
    /\ utoken \in UriTokenPool
    /\ uresult = NotCalled
    /\ sname = Null
    /\ sissuer = Null
    /\ sresult = NotCalled

CallGenerate ==
    /\ uresult = NotCalled
    /\ uresult' = generate_otpauth_uri(utoken)
    /\ UNCHANGED <<utoken, convertVars, stripVars>>

NextUri == CallGenerate

SpecUri == InitUri /\ [][NextUri]_vars

---------------------------------------------------------------------------
(* direct calls of strip_issuer_from_name *)

InitStrip ==
    /\ IdleConvert
    /\ utoken = Tok(Absent, Absent, Absent, Absent, Absent, Absent)
    /\ uresult = NotCalled
    /\ sname \in StripNamePool
    /\ sissuer \in StripIssuerPool
    /\ sresult = NotCalled

CallStrip ==
    /\ sresult = NotCalled
    /\ sresult' = Ok(strip_issuer_from_name(sname, sissuer))
    /\ UNCHANGED <<sname, sissuer, convertVars, uriVars>>

NextStrip == CallStrip

SpecStrip == InitStrip /\ [][NextStrip]_vars

---------------------------------------------------------------------------
(* Reading a URI back: the label and the query parameters *)

\* s.split(c)
RECURSIVE SplitOn(_, _)
SplitOn(s, c) ==
    LET at == {j \in 1..Len(s) : s[j] = c}
    IN  IF at = {} THEN <<s>>
        ELSE <<SubSeq(s, 1, SetMin(at) - 1)>>
                 \o SplitOn(SubSeq(s, SetMin(at) + 1, Len(s)), c)

\* the percent-encoded label: what stands between otpauth://totp/ and ?
LabelOf(uri) == SubSeq(BeforeFirst(uri, "?"), Len(S_scheme) + 1,
                       Len(BeforeFirst(uri, "?")))
\* the query parameters, in the order they stand in the URI
ParamsOf(uri) ==
    SplitOn(SubSeq(uri, Len(BeforeFirst(uri, "?")) + 2, Len(uri)), "&")
KeysOf(uri) ==
    [j \in 1..Len(ParamsOf(uri)) |-> BeforeFirst(ParamsOf(uri)[j], "=")]
HasParam(uri, param) == \E j \in 1..Len(ParamsOf(uri)) : ParamsOf(uri)[j] = param
HasKey(uri, key) == \E j \in 1..Len(KeysOf(uri)) : KeysOf(uri)[j] = key

K_secret == <<"s","e","c","r","e","t">>
K_issuer == <<"i","s","s","u","e","r">>
K_digits == <<"d","i","g","i","t","s">>
K_algorithm == <<"a","l","g","o","r","i","t","h","m">>
P_digits6 == <<"d","i","g","i","t","s","=","6">>
U_AcmeJsmith == <<"o","t","p","a","u","t","h",":","/","/","t","o","t","p","/","A","c","m","e","%","3","A","j","s","m","i","t","h","?","s","e","c","r","e","t","=","S","E","C","R","E","T","1","2","3","&","i","s","s","u","e","r","=","A","c","m","e","&","d","i","g","i","t","s","=","6","&","a","l","g","o","r","i","t","h","m","=","S","H","A","1">>
U_jsmith8 == <<"o","t","p","a","u","t","h",":","/","/","t","o","t","p","/","j","s","m","i","t","h","?","s","e","c","r","e","t","=","S","E","C","R","E","T","1","2","3","&","d","i","g","i","t","s","=","8","&","a","l","g","o","r","i","t","h","m","=","S","H","A","1">>

NonEmptyStr(v) == v.k = "str" /\ v.s # <<>>

---------------------------------------------------------------------------
(* C1 *)

\* what each step of the chain yields for a token, <<>> when it yields nothing
ChainCandidates(token) ==
    << IF NonEmptyStr(token.issuer) THEN token.issuer.s ELSE <<>>,
       IF NonEmptyStr(token.logo) /\ ~StartsWith(token.logo.s, S_authenticator_)
       THEN token.logo.s ELSE <<>>,
       IF NonEmptyStr(token.account_type)
          /\ ~StartsWith(token.account_type.s, S_authenticator)
       THEN token.account_type.s ELSE <<>>,
       IF token.name.k = "str" /\ Contains(token.name.s, <<":">>)
       THEN Strip(BeforeFirst(token.name.s, ":")) ELSE <<>>,
       IF token.name.k = "str" THEN Strip(token.name.s) ELSE <<>> >>

FirstNonEmpty(cs) ==
    LET at == {j \in 1..Len(cs) : cs[j] # <<>>}
    IN  IF at = {} THEN <<>> ELSE cs[SetMin(at)]

\* C1: the issuer convert_tokens holds before title-casing is what the first
\* step of the chain (issuer, usable logo, usable account_type, trimmed name
\* prefix before the first colon, trimmed name) that yields a non-empty string
\* yields; and the name is consulted (where a null name raises TypeError) only
\* when none of issuer, logo and account_type yielded a value.
C1_FallbackChain ==
    /\ pc = "titlecase" => issuer = FirstNonEmpty(ChainCandidates(file.toks[i]))
    /\ \A j \in 1..Len(errors) :
         errors[j].exc = "TypeError" =>
            \A c \in 1..3 : ChainCandidates(file.toks[i])[c] = <<>>

C1_Witness ==
    /\ pc = "titlecase"
    /\ ~NonEmptyStr(file.toks[i].issuer)
    /\ UsableLogo(file.toks[i])
    /\ UsableAccountType(file.toks[i])
    /\ issuer = file.toks[i].logo.s
    /\ issuer # file.toks[i].account_type.s

---------------------------------------------------------------------------
(* C2 *)

\* C2: in interactive mode the issuer prompt occurs for a token only if the
\* token had no explicit non-empty issuer in the input.
C2_IssuerPromptOnlyWithoutExplicitIssuer ==
    \A j \in 1..Len(prompts) :
        prompts[j].kind = "issuer" =>
            ~NonEmptyStr(file.toks[prompts[j].idx].issuer)

---------------------------------------------------------------------------
(* C3 *)

\* the run failed before the output was opened: on the input, or on a token
FailedBeforeWrite ==
    errors # <<>> /\ \A j \in 1..Len(errors) : errors[j].exc # "OSError"

\* C3: the output is written at most once and only after every token was
\* processed without failure; a missing or malformed input, a missing or
\* empty token list, or a failing token (a null name) at any position leaves
\* the output unwritten, logs an error, and convert_tokens returns without
\* raising.
C3_AllOrNothing ==
    /\ writes <= 1
    /\ pc # "raised"
    /\ output.written =>
         /\ writes = 1
         /\ pc = "returned"
         /\ ~FailedBeforeWrite
         /\ file.kind = "object" /\ file.haskey /\ file.toks # <<>>
         /\ Len(uris) = Len(file.toks)
         /\ i = Len(file.toks) + 1
         /\ \A k \in 1..Len(file.toks) : file.toks[k].name # Null
    /\ errors # <<>> => pc = "returned"
    /\ FailedBeforeWrite => (output = Unwritten /\ writes = 0)
    /\ pc = "returned" => (output.written \/ errors # <<>>)
    /\ (pc = "returned" /\ (file.kind # "object" \/ ~file.haskey
                            \/ file.toks = <<>>
                            \/ \E k \in 1..Len(file.toks) :
                                   file.toks[k].name = Null)) =>
         (FailedBeforeWrite /\ output = Unwritten)

C3_Witness ==
    /\ pc = "returned"
    /\ Len(uris) >= 1
    /\ Len(uris) < Len(file.toks)
    /\ FailedBeforeWrite
    /\ output = Unwritten

---------------------------------------------------------------------------
(* C4 *)

LoopBody ==
    {"resolve", "titlecase", "issuer_prompt", "store", "account_prompt", "log"}

\* C4: on success (the output written, no error logged) the output holds
\* exactly one URI per input token, the k-th built from the k-th token,
\* joined by single newlines with no trailing newline; and while token i is
\* in the loop body exactly the URIs of the tokens before it have been
\* collected.
C4_OrderedOutput ==
    /\ pc \in LoopBody => Len(uris) = i - 1
    /\ \A k \in 1..Len(uris) : uris[k] = generate_otpauth_uri(tokens[k]).v
    /\ (output.written /\ errors = <<>>) =>
         /\ Len(file.toks) >= 1
         /\ Len(uris) = Len(file.toks)
         /\ SplitOn(output.text, "\n") = uris
         /\ output.text[Len(output.text)] # "\n"

C4_Witness ==
    /\ output.written
    /\ errors = <<>>
    /\ Len(uris) = 2
    /\ uris[1] # uris[2]

---------------------------------------------------------------------------
(* C5 *)

\* the account generate_otpauth_uri puts in the label
LabelAccount(token) ==
    LET name == Get(token, "name", Str(<<>>))
        c == strip_issuer_from_name(name, Get(token, "issuer", Str(<<>>)))
    IN  IF c = <<>> THEN Strip(name.s) ELSE c

\* C5: the query parameters stand in the order secret, issuer, digits,
\* algorithm; secret is there iff decrypted_seed is non-empty, issuer iff the
\* issuer is non-empty, digits iff the digits value (6 when the key is
\* absent) is truthy, algorithm=SHA1 always and last; the label is
\* issuer:account when the issuer is non-empty and account otherwise; the two
\* example tokens give exactly the two example URIs.
C5_QueryParameters ==
    uresult.ok =>
        LET u == uresult.v
            iss == utoken.issuer
        IN  /\ StartsWith(u, S_scheme)
            /\ KeysOf(u) =
                 (IF NonEmptyStr(utoken.decrypted_seed) THEN <<K_secret>> ELSE <<>>)
                 \o (IF NonEmptyStr(iss) THEN <<K_issuer>> ELSE <<>>)
                 \o (IF utoken.digits = Absent \/ Truthy(utoken.digits)
                     THEN <<K_digits>> ELSE <<>>)
                 \o <<K_algorithm>>
            /\ ParamsOf(u)[Len(ParamsOf(u))] = S_algorithm
            /\ NonEmptyStr(utoken.decrypted_seed) =>
                 HasParam(u, S_secretEq \o utoken.decrypted_seed.s)
            /\ NonEmptyStr(iss) => HasParam(u, S_issuerEq \o Quote(iss.s))
            /\ LabelOf(u) =
                 (IF NonEmptyStr(iss)
                  THEN Quote(iss.s) \o <<"%","3","A">> \o Quote(LabelAccount(utoken))
                  ELSE Quote(LabelAccount(utoken)))
            /\ utoken = Tok(Str(N_Acme), Str(N_AcmeJsmith), Absent, Absent,
                            Str(N_SECRET), Num(6)) => u = U_AcmeJsmith
            /\ utoken = Tok(Absent, Str(N_jsmith), Absent, Absent,
                            Str(N_SECRET), Num(8)) => u = U_jsmith8

C5_Witness ==
    /\ uresult.ok
    /\ utoken = Tok(Str(N_Acme), Str(N_AcmeJsmith), Absent, Absent,
                    Str(N_SECRET), Num(6))
    /\ uresult.v = U_AcmeJsmith

---------------------------------------------------------------------------
(* C6 *)

\* C6: a token whose digits field is missing, null or 0 gets digits=6 in its
\* URI.
C6_DigitsDefaultWhenFalsy ==
    (uresult.ok /\ utoken.digits \in {Absent, Null, Num(0)}) =>
        HasParam(uresult.v, P_digits6)

\* C6 as amended: a token whose digits key is missing gets digits=6; a token
\* whose digits is null or 0 gets no digits parameter at all.
C6_DigitsDefaultOnlyWhenAbsent ==
    uresult.ok =>
        /\ utoken.digits = Absent => HasParam(uresult.v, P_digits6)
        /\ utoken.digits \in {Null, Num(0)} => ~HasKey(uresult.v, K_digits)

C6_Witness ==
    /\ uresult.ok
    /\ utoken.digits = Null
    /\ ~HasKey(uresult.v, K_digits)
    /\ HasParam(uresult.v, S_algorithm)

---------------------------------------------------------------------------
(* C7 *)

\* C7: generate_otpauth_uri never raises: for every token, also one whose
\* name, issuer, decrypted_seed or digits is absent or null, it returns a URI
\* that carries algorithm=SHA1.
C7_NeverRaises ==
    uresult # NotCalled =>
        (uresult.ok /\ HasParam(uresult.v, S_algorithm))

---------------------------------------------------------------------------
(* C8 *)

EqIgnoreCase(c, d) == c = d \/ ToUpper(c) = d \/ c = ToUpper(d)

\* x is the issuer (in either case), then whitespace, then one separator
\* (colon, hyphen or whitespace), then whitespace
IsIssuerSeparator(x, iss) ==
    /\ Len(x) > Len(iss)
    /\ \A j \in 1..Len(iss) : EqIgnoreCase(x[j], iss[j])
    /\ \E sep \in (Len(iss) + 1)..Len(x) :
         /\ x[sep] \in {":", "-", " ", "\t", "\n", "\r"}
         /\ \A j \in ((Len(iss) + 1)..Len(x)) \ {sep} :
                x[j] \in {" ", "\t", "\n", "\r"}

\* the lengths of the prefixes of name that are issuer + separator
IssuerPrefixes(name, iss) ==
    {e \in 1..Len(name) : IsIssuerSeparator(SubSeq(name, 1, e), iss)}

\* C8: for a non-empty name and issuer, strip_issuer_from_name removes a
\* prefix iff the name starts, case-insensitively and with the issuer taken
\* literally, with the issuer followed by a separator; it removes that prefix
\* (the issuer, the separator and the whitespace around it) once and returns
\* the rest trimmed; otherwise it returns the trimmed name; with an empty or
\* absent name or issuer it returns the trimmed name, or the empty string.
\* ('Acme: Email','Acme') gives 'Email', ('ACME-jsmith','Acme') 'jsmith'.
C8_StripIssuerPrefix ==
    sresult.ok =>
        /\ IF NonEmptyStr(sname) /\ NonEmptyStr(sissuer)
           THEN LET es == IssuerPrefixes(sname.s, sissuer.s)
                IN  IF es # {}
                    THEN sresult.v = Strip(SubSeq(sname.s, SetMax(es) + 1,
                                                  Len(sname.s)))
                    ELSE sresult.v = Strip(sname.s)
           ELSE sresult.v = (IF NonEmptyStr(sname) THEN Strip(sname.s) ELSE <<>>)
        /\ (sname = Str(N_AcmeEmail) /\ sissuer = Str(N_Acme)) => sresult.v = N_Email
        /\ (sname = Str(N_ACMEjsmith) /\ sissuer = Str(N_Acme)) => sresult.v = N_jsmith
        /\ (NonEmptyStr(sissuer) /\ sname = sissuer) => sresult.v = Strip(sname.s)

C8_Witness ==
    /\ sresult.ok
    /\ sname = Str(N_ACMEjsmith)
    /\ sissuer = Str(N_Acme)
    /\ sresult.v = N_jsmith

---------------------------------------------------------------------------
(* C9 *)

\* the account prompts made for token k
AccountPrompts(k) ==
    {j \in 1..Len(prompts) : prompts[j].kind = "account" /\ prompts[j].idx = k}

\* the name of token k with its final issuer stripped
CleanedName(k) ==
    strip_issuer_from_name(Get(file.toks[k], "name", Str(<<>>)), tokens[k].issuer)

\* C9: in interactive mode the account prompt occurs for a token iff its
\* cleaned account name contains ': '; an empty reply leaves the account and
\* the stored name as they were, a non-empty reply becomes the account and
\* the stored name; in non-interactive mode there is no prompt and no name
\* is modified.  (The reply is the typed line as line 169 trims it.)
C9_AccountPrompt ==
    /\ pc = "account_prompt" =>
         (interactive /\ account = CleanedName(i) /\ AccountPrompts(i) = {})
    /\ pc = "log" =>
         /\ Cardinality(AccountPrompts(i)) <= 1
         /\ AccountPrompts(i) # {} <=>
              (interactive /\ Contains(CleanedName(i), <<":", " ">>))
         /\ AccountPrompts(i) = {} =>
              (account = CleanedName(i) /\ tokens[i].name = file.toks[i].name)
         /\ \A j \in AccountPrompts(i) :
              IF prompts[j].reply = <<>>
              THEN account = CleanedName(i) /\ tokens[i].name = file.toks[i].name
              ELSE account = prompts[j].reply /\ tokens[i].name = Str(prompts[j].reply)
    /\ ~interactive =>
         /\ prompts = <<>>
         /\ pc # "account_prompt"
         /\ \A k \in 1..Len(tokens) : tokens[k].name = file.toks[k].name

C9_Witness ==
    /\ pc = "log"
    /\ \E j \in AccountPrompts(i) :
         /\ prompts[j].reply # <<>>
         /\ account = prompts[j].reply
         /\ tokens[i].name = Str(prompts[j].reply)
         /\ tokens[i].name # file.toks[i].name

---------------------------------------------------------------------------
(* C10 *)

\* C10: the issuer/account pair of the k-th 'processed totp' log line is the
\* pair in the k-th URI: the label is the logged issuer and the logged
\* account, and the issuer parameter is the logged issuer.
C10_LoggedPairIsUriPair ==
    \A k \in 1..Len(uris) :
        /\ LabelOf(uris[k]) =
             Quote(Label(Str(logged[k].issuer), logged[k].account))
        /\ logged[k].issuer # <<>> =>
             HasParam(uris[k], S_issuerEq \o Quote(logged[k].issuer))
        /\ logged[k].issuer = <<>> => ~HasKey(uris[k], K_issuer)

====
